---- MODULE Spec2Model ----
(***************************************************************************)
(* Model of HttpTemperatureHumidityAccessory                               *)
(* (src/src/homebridge-http-temperature-humidity.ts): the constructor,     *)
(* the repeating timer, the HTTP fetch and its promise chain, the cache    *)
(* (accessoryState), the pushes to the host and the host's getters.        *)
(*                                                                         *)
(* JavaScript runs one task at a time.  The constructor is synchronous, so *)
(* no timer callback, HTTP completion or host call runs before it has      *)
(* returned.  An HTTP completion arrives as a task of its own; the promise *)
(* reactions it triggers (callServer's then, updateAllStates' then/catch,  *)
(* the timer callback's then) are microtasks that all run before the next  *)
(* task, so one completion is one step of the model.                       *)
(***************************************************************************)
EXTENDS Integers, Sequences, FiniteSets

\* ------------------------------------------------------------------ bounds

\* The timer is let fire this many times.
MaxTicks == 2

\* The endpoint reports numbers 0..MaxReading.
MaxReading == 1

Numbers == 0..MaxReading

\* JavaScript's undefined (the value of an absent property), encoded as a
\* value outside Numbers.
undefined == MaxReading + 1

JsValues == Numbers \cup {undefined}

\* config.refresh, when given, is one of 0..MaxRefresh (seconds).
MaxRefresh == 5

\* config.refresh left out of the configuration, encoded as a value outside
\* 0..MaxRefresh.
omitted == MaxRefresh + 1

\* ------------------------------------------------------------- environment

\* What the host may put in config.disableHumidity: the booleans, nothing,
\* or a truthy value that is not the boolean true (for instance 1).
ConfigDisableHumidity == {"true", "false", "undefined", "1"}

\* What the host may put in config.refresh.
ConfigRefresh == (0..MaxRefresh) \cup {omitted}

\* The configurations explored for the polling and the humidity switch: the
\* refresh interval plays no part there and is left out.
Configs == {[disableHumidity |-> d, refresh |-> omitted] : d \in ConfigDisableHumidity}

\* The configurations explored for the polling period.
RefreshConfigs == {[disableHumidity |-> "undefined", refresh |-> r] : r \in ConfigRefresh}

\* What the endpoint may answer to one GET.
\*   network_error  no response at all
\*   http_500       a response with a status outside 2xx
\*   malformed      2xx, the body is not well-formed JSON
\*   json_null      2xx, the body is the JSON value null
\*   json_object    2xx, the body is a JSON object; an absent field is undefined
Response(kind, t, h) == [kind |-> kind, temperature |-> t, humidity |-> h]

Responses ==
    {Response(k, undefined, undefined) :
        k \in {"network_error", "http_500", "malformed", "json_null"}}
    \cup {Response("json_object", t, h) : t \in JsValues, h \in JsValues}

NoResponse == Response("none", undefined, undefined)

HttpFailures == {"network_error", "http_500"}

\* ------------------------------------------------------------------- state

VARIABLES
    config,             \* the AccessoryConfig handed to the constructor
    disableHumidity,    \* this.disableHumidity
    refresh_interval,   \* this.refresh_interval
    accessoryState,     \* this.accessoryState, the cache
    onGet,              \* the characteristics a getter is registered for
    pc,                 \* where the constructor is; "running" once it returned
    timerArmed,         \* setInterval has been called
    timerDelay,         \* the delay setInterval was given, in ms (0 before)
    ticks,              \* how often the interval has fired
    issued,             \* origin of every axios.get so far, in request order
    inflight,           \* indices into issued: the requests not yet completed
    source,             \* per cache field, the request that wrote it last (0: none)
    replaced,           \* the request whose reading the last write replaced (0: none)
    homekit,            \* the characteristic values the host holds
    unhandledRejection, \* a promise rejected with nobody handling it
    last                \* what the most recent step did (see Event)

vars == <<config, disableHumidity, refresh_interval, accessoryState, onGet, pc,
          timerArmed, timerDelay, ticks, issued, inflight, source, replaced, homekit,
          unhandledRejection, last>>

\* One step's observable doing: the operation, the request it settles and the
\* response it got, what updateAllStates resolved to, the lines logged, the
\* updateCharacteristic calls made, a getter's return value, getServices' list.
Event(op, origin, resp, updated, logs, pushes, value, services) ==
    [op |-> op, origin |-> origin, resp |-> resp, updated |-> updated,
     logs |-> logs, pushes |-> pushes, value |-> value, services |-> services]

Push(characteristic, value) == [characteristic |-> characteristic, value |-> value]

\* ------------------------------------------------------------ pure helpers

\* class TemperatureAndHumidity; both constructor parameters default to 0.
TemperatureAndHumidity(temperature, humidity) ==
    [temperature |-> temperature, humidity |-> humidity]

\* config.disableHumidity || false
OrFalse(c) == IF c \in {"false", "undefined"} THEN "false" ELSE c

\* The default of config.refresh, in seconds.
DefaultRefresh == 30

\* Milliseconds per second.
MillisPerSecond == 1000

\* config.refresh || 30: the default replaces a missing value and a 0 alike.
OrDefaultRefresh(c) == IF c = omitted \/ c = 0 THEN DefaultRefresh ELSE c

\* As getRefreshIntervalInMillis, but without the conversion to milliseconds.
getRefreshIntervalInMillis_Seconds(r) == r

getRefreshIntervalInMillis(r) == r * MillisPerSecond

\* As HumidityEnabled, but testing truthiness (!this.disableHumidity).
HumidityEnabled_Truthy(d) == d \notin {"true", "1"}

\* this.disableHumidity !== true
HumidityEnabled(d) == d # "true"

\* The constructor's onGet registrations.
RegisteredGetters(d) ==
    {"CurrentTemperature"}
    \cup (IF HumidityEnabled(d) THEN {"CurrentRelativeHumidity"} ELSE {})

\* axios.get(url) with axios' default configuration.  A network error or a
\* status outside 2xx rejects.  A 2xx body is run through JSON.parse; a body
\* that does not parse is handed over unparsed, as a string, and the promise
\* still fulfils (axios' default transitional.silentJSONParsing).
axios_get(resp) ==
    IF resp.kind \in HttpFailures
    THEN [settled |-> "rejected", type |-> "error",
          temperature |-> undefined, humidity |-> undefined]
    ELSE [settled |-> "fulfilled",
          type |-> CASE resp.kind = "malformed" -> "string"
                     [] resp.kind = "json_null" -> "null"
                     [] OTHER -> "object",
          temperature |-> IF resp.kind = "json_object" THEN resp.temperature
                          ELSE undefined,
          humidity |-> IF resp.kind = "json_object" THEN resp.humidity
                       ELSE undefined]

\* As callServer, but keeping the defaults of TemperatureAndHumidity() for
\* the fields response.data lacks.
callServer_KeepsDefaults(resp) ==
    LET r == axios_get(resp)
    IN  [r EXCEPT !.temperature = IF @ = undefined THEN 0 ELSE @,
                  !.humidity = IF @ = undefined THEN 0 ELSE @]

\* callServer: the default TemperatureAndHumidity() is replaced by
\* response.data (the cast does nothing at run time); a rejection of
\* axios.get passes through.
callServer(resp) == axios_get(resp)

\* Reading a property of response.data throws a TypeError on null.
PropertyReadThrows(data) == data.type = "null"

\* As updateAllStates, but without the catch: a failure rejects the promise.
updateAllStates_NoCatch(state, resp) ==
    LET r == callServer(resp)
    IN  IF r.settled = "fulfilled" /\ ~PropertyReadThrows(r)
        THEN [settled |-> "fulfilled", updated |-> TRUE,
              accessoryState |-> [temperature |-> r.temperature,
                                  humidity |-> r.humidity],
              logs |-> <<"CallServerResponse">>,
              wrote |-> {"temperature", "humidity"}]
        ELSE [settled |-> "rejected", updated |-> FALSE,
              accessoryState |-> state,
              logs |-> <<>>, wrote |-> {}]

\* As updateAllStates, but with the fulfilment handler assigning the
\* temperature only.
updateAllStates_TemperatureOnly(state, resp) ==
    LET r == callServer(resp)
    IN  IF r.settled = "fulfilled" /\ ~PropertyReadThrows(r)
        THEN [settled |-> "fulfilled", updated |-> TRUE,
              accessoryState |-> [state EXCEPT !.temperature = r.temperature],
              logs |-> <<"CallServerResponse">>,
              wrote |-> {"temperature"}]
        ELSE [settled |-> "fulfilled", updated |-> FALSE,
              accessoryState |-> state,
              logs |-> <<"updateAllStates Error">>, wrote |-> {}]

\* updateAllStates: on fulfilment log the reading and overwrite both fields
\* of accessoryState; a rejection of callServer, or a throw inside the
\* fulfilment handler, goes to catch, which logs.  Either way the promise
\* fulfils, with `updated`.
updateAllStates(state, resp) ==
    LET r == callServer(resp)
    IN  IF r.settled = "fulfilled" /\ ~PropertyReadThrows(r)
        THEN [settled |-> "fulfilled", updated |-> TRUE,
              accessoryState |-> [temperature |-> r.temperature,
                                  humidity |-> r.humidity],
              logs |-> <<"CallServerResponse">>,
              wrote |-> {"temperature", "humidity"}]
        ELSE [settled |-> "fulfilled", updated |-> FALSE,
              accessoryState |-> state,
              logs |-> <<"updateAllStates Error">>, wrote |-> {}]

\* As IntervalThen, but pushing the temperature only.
IntervalThen_TemperatureOnly(state, d) ==
    <<Push("CurrentTemperature", state.temperature)>>

\* As IntervalThen, but with the two cache fields mixed up.
IntervalThen_Swapped(state, d) ==
    <<Push("CurrentTemperature", state.humidity)>>
    \o (IF HumidityEnabled(d)
        THEN <<Push("CurrentRelativeHumidity", state.temperature)>>
        ELSE <<>>)

\* The then-handler of the timer callback: push what the cache now holds.
IntervalThen(state, d) ==
    <<Push("CurrentTemperature", state.temperature)>>
    \o (IF HumidityEnabled(d)
        THEN <<Push("CurrentRelativeHumidity", state.humidity)>>
        ELSE <<>>)

\* How updateCharacteristic calls change what the host holds.
RECURSIVE ApplyPushes(_, _)
ApplyPushes(hk, pushes) ==
    IF pushes = <<>> THEN hk
    ELSE ApplyPushes([hk EXCEPT ![Head(pushes).characteristic] = Head(pushes).value],
                     Tail(pushes))

getServices(d) ==
    <<"informationService", "temperatureService">>
    \o (IF HumidityEnabled(d) THEN <<"humidityService">> ELSE <<>>)

getCurrentTemperature(state) == state.temperature

\* As getCurrentRelativeHumidity, but reading the wrong field.
getCurrentRelativeHumidity_WrongField(state) == state.temperature

getCurrentRelativeHumidity(state) == state.humidity

\* As TimerFires, but skipping the tick while a request is outstanding.
TimerFires_SkipIfBusy == timerArmed /\ pc = "running" /\ inflight = {}

\* The interval fires whenever the timer is armed and the event loop is free
\* to run its callback; nothing else gates it.
TimerFires == timerArmed /\ pc = "running"

\* ------------------------------------------------------------------ actions

\* The state when the constructor reaches setInterval: the field initialiser
\* has set the cache, the configuration is read, the getters are registered.
InitWith(configs) ==
    /\ config \in configs
    /\ disableHumidity = OrFalse(config.disableHumidity)
    /\ refresh_interval = OrDefaultRefresh(config.refresh)
    /\ timerDelay = 0
    /\ source = [temperature |-> 0, humidity |-> 0]
    /\ replaced = 0
    /\ accessoryState = TemperatureAndHumidity(0, 0)
    /\ onGet = RegisteredGetters(disableHumidity)
    /\ pc = "setInterval"
    /\ timerArmed = FALSE
    /\ ticks = 0
    /\ issued = <<>>
    /\ inflight = {}
    /\ homekit = [CurrentTemperature |-> 0, CurrentRelativeHumidity |-> 0]
    /\ unhandledRejection = FALSE
    /\ last = Event("new", "none", NoResponse, FALSE, <<>>, <<>>, undefined, <<>>)

\* constructor: setInterval(callback, getRefreshIntervalInMillis())
SetInterval ==
    /\ pc = "setInterval"
    /\ timerArmed' = TRUE
    /\ timerDelay' = getRefreshIntervalInMillis(refresh_interval)
    /\ pc' = "initialize"
    /\ last' = Event("setInterval", "none", NoResponse, FALSE, <<>>, <<>>,
                     undefined, <<>>)
    /\ UNCHANGED <<config, disableHumidity, refresh_interval, accessoryState, source,
                   replaced, onGet, ticks, issued, inflight, homekit,
                   unhandledRejection>>

\* As InitializeState, but calling updateAllStates twice.
InitializeState_Twice ==
    /\ pc = "initialize"
    /\ issued' = issued \o <<"init", "init">>
    /\ inflight' = inflight \cup {Len(issued) + 1, Len(issued) + 2}
    /\ pc' = "running"
    /\ last' = Event("initialize", "init", NoResponse, FALSE,
                     <<"finished initializing", "Will refresh state">>, <<>>,
                     undefined, <<>>)
    /\ UNCHANGED <<config, disableHumidity, refresh_interval, accessoryState, source,
                   replaced, onGet, timerArmed, timerDelay, ticks, homekit,
                   unhandledRejection>>

\* constructor: this.updateAllStates() with its result dropped, then the two
\* log lines; the constructor returns.
InitializeState ==
    /\ pc = "initialize"
    /\ issued' = Append(issued, "init")
    /\ inflight' = inflight \cup {Len(issued) + 1}
    /\ pc' = "running"
    /\ last' = Event("initialize", "init", NoResponse, FALSE,
                     <<"finished initializing", "Will refresh state">>, <<>>,
                     undefined, <<>>)
    /\ UNCHANGED <<config, disableHumidity, refresh_interval, accessoryState, source,
                   replaced, onGet, timerArmed, timerDelay, ticks, homekit,
                   unhandledRejection>>

\* As Tick, but with the callback calling updateAllStates twice.
Tick_Twice ==
    /\ TimerFires
    /\ ticks < MaxTicks
    /\ ticks' = ticks + 1
    /\ issued' = issued \o <<"tick", "tick">>
    /\ inflight' = inflight \cup {Len(issued) + 1, Len(issued) + 2}
    /\ last' = Event("tick", "tick", NoResponse, FALSE, <<>>, <<>>, undefined, <<>>)
    /\ UNCHANGED <<config, disableHumidity, refresh_interval, accessoryState, source,
                   replaced, onGet, pc, timerArmed, timerDelay, homekit,
                   unhandledRejection>>

\* The interval fires: the callback calls updateAllStates, which runs up to
\* its await of axios.get.
Tick ==
    /\ TimerFires
    /\ ticks < MaxTicks
    /\ ticks' = ticks + 1
    /\ issued' = Append(issued, "tick")
    /\ inflight' = inflight \cup {Len(issued) + 1}
    /\ last' = Event("tick", "tick", NoResponse, FALSE, <<>>, <<>>, undefined, <<>>)
    /\ UNCHANGED <<config, disableHumidity, refresh_interval, accessoryState, source,
                   replaced, onGet, pc, timerArmed, timerDelay, homekit,
                   unhandledRejection>>

\* As Complete, but dropping the reading of a request that was issued before
\* the one whose reading the cache holds (request order wins).
Complete_DropsStale(i, resp) ==
    LET fresh == updateAllStates(accessoryState, resp)
        u == IF fresh.updated /\ source.temperature > i
             THEN [fresh EXCEPT !.accessoryState = accessoryState, !.wrote = {}]
             ELSE fresh
        fromTimer == issued[i] = "tick"
        pushes == IF fromTimer /\ u.settled = "fulfilled"
                  THEN IntervalThen(u.accessoryState, disableHumidity)
                  ELSE <<>>
        logs == u.logs \o (IF fromTimer /\ u.settled = "fulfilled"
                           THEN <<"Triggering updateAccessoryState">> ELSE <<>>)
    IN  /\ pc = "running"
        /\ i \in inflight
        /\ inflight' = inflight \ {i}
        /\ accessoryState' = u.accessoryState
        /\ replaced' = IF u.wrote # {} THEN source.temperature ELSE replaced
        /\ source' = [f \in {"temperature", "humidity"} |->
                          IF f \in u.wrote THEN i ELSE source[f]]
        /\ homekit' = ApplyPushes(homekit, pushes)
        /\ unhandledRejection' = (unhandledRejection \/ u.settled = "rejected")
        /\ last' = Event("complete", issued[i], resp, u.updated, logs, pushes,
                         undefined, <<>>)
        /\ UNCHANGED <<config, disableHumidity, refresh_interval, onGet, pc,
                       timerArmed, timerDelay, ticks, issued>>

\* Request i completes with response resp: updateAllStates settles and, for
\* a request of the timer, the callback's then-handler runs.
Complete(i, resp) ==
    LET u == updateAllStates(accessoryState, resp)
        fromTimer == issued[i] = "tick"
        pushes == IF fromTimer /\ u.settled = "fulfilled"
                  THEN IntervalThen(u.accessoryState, disableHumidity)
                  ELSE <<>>
        logs == u.logs \o (IF fromTimer /\ u.settled = "fulfilled"
                           THEN <<"Triggering updateAccessoryState">> ELSE <<>>)
    IN  /\ pc = "running"
        /\ i \in inflight
        /\ inflight' = inflight \ {i}
        /\ accessoryState' = u.accessoryState
        /\ replaced' = IF u.wrote # {} THEN source.temperature ELSE replaced
        /\ source' = [f \in {"temperature", "humidity"} |->
                          IF f \in u.wrote THEN i ELSE source[f]]
        /\ homekit' = ApplyPushes(homekit, pushes)
        /\ unhandledRejection' = (unhandledRejection \/ u.settled = "rejected")
        /\ last' = Event("complete", issued[i], resp, u.updated, logs, pushes,
                         undefined, <<>>)
        /\ UNCHANGED <<config, disableHumidity, refresh_interval, onGet, pc,
                       timerArmed, timerDelay, ticks, issued>>

\* The host reads the temperature through the registered getter.
GetCurrentTemperature ==
    /\ pc = "running"
    /\ "CurrentTemperature" \in onGet
    /\ last' = Event("getCurrentTemperature", "none", NoResponse, FALSE,
                     <<"getCurrentTemperature">>, <<>>,
                     getCurrentTemperature(accessoryState), <<>>)
    /\ UNCHANGED <<config, disableHumidity, refresh_interval, accessoryState, source,
                   replaced, onGet, pc, timerArmed, timerDelay, ticks, issued,
                   inflight, homekit, unhandledRejection>>

\* The host reads the humidity through the registered getter.
GetCurrentRelativeHumidity ==
    /\ pc = "running"
    /\ "CurrentRelativeHumidity" \in onGet
    /\ last' = Event("getCurrentRelativeHumidity", "none", NoResponse, FALSE,
                     <<"getCurrentRelativeHumidity">>, <<>>,
                     getCurrentRelativeHumidity(accessoryState), <<>>)
    /\ UNCHANGED <<config, disableHumidity, refresh_interval, accessoryState, source,
                   replaced, onGet, pc, timerArmed, timerDelay, ticks, issued,
                   inflight, homekit, unhandledRejection>>

\* The host asks for the services of the accessory.
GetServices ==
    /\ pc = "running"
    /\ last' = Event("getServices", "none", NoResponse, FALSE, <<>>, <<>>,
                     undefined, getServices(disableHumidity))
    /\ UNCHANGED <<config, disableHumidity, refresh_interval, accessoryState, source,
                   replaced, onGet, pc, timerArmed, timerDelay, ticks, issued,
                   inflight, homekit, unhandledRejection>>

CompleteSome == \E i \in inflight : \E resp \in Responses : Complete(i, resp)

Next ==
    \/ SetInterval
    \/ InitializeState
    \/ Tick
    \/ CompleteSome
    \/ GetCurrentTemperature
    \/ GetCurrentRelativeHumidity
    \/ GetServices

Init == InitWith(Configs)

InitRefresh == InitWith(RefreshConfigs)

Spec == Init /\ [][Next]_vars

\* The same accessory, constructed with each value of config.refresh.
RefreshSpec == InitRefresh /\ [][Next]_vars

\* The constructor runs to its end, and an armed interval keeps firing; no
\* HTTP request is required ever to complete.
LiveSpec == Spec /\ WF_vars(SetInterval) /\ WF_vars(InitializeState) /\ WF_vars(Tick)

\* ------------------------------------------------------------------- claims

Completed == last.op = "complete"

\* The step wrote this line to the log.
Logged(event, line) == \E i \in 1..Len(event.logs) : event.logs[i] = line

\* The reading a well-formed JSON object response carries.
ReadingOf(resp) == TemperatureAndHumidity(resp.temperature, resp.humidity)

\* The pushes a reading calls for: the temperature and, unless the
\* configuration disables humidity, the humidity.
PushesFor(reading) ==
    <<Push("CurrentTemperature", reading.temperature)>>
    \o (IF config.disableHumidity # "true"
        THEN <<Push("CurrentRelativeHumidity", reading.humidity)>>
        ELSE <<>>)

\* C1: the cache always equals the reading of the most recently completed
\* successful fetch (a 2xx response whose body parses to a JSON object), or
\* {0, 0} before the first: a step changes the cache only by completing such
\* a fetch, and then to exactly its reading.
C1_CacheIsLastSuccessfulReading ==
    [][IF last'.op = "complete" /\ last'.resp.kind = "json_object"
       THEN accessoryState' = ReadingOf(last'.resp)
       ELSE accessoryState' = accessoryState]_vars

\* C2: a fetch that fails because the HTTP request fails (no response, or a
\* status outside 2xx) leaves the cache as it was, logs an error, and
\* updateAllStates still resolves (with false): no rejection is left
\* unhandled.
C2_HttpFailureKeepsCache ==
    [][(last'.op = "complete" /\ last'.resp.kind \in HttpFailures)
       => /\ accessoryState' = accessoryState
          /\ Logged(last', "updateAllStates Error")
          /\ ~last'.updated
          /\ ~unhandledRejection']_vars

C2_Witness ==
    /\ Completed
    /\ last.origin = "tick"
    /\ last.resp.kind = "http_500"
    /\ accessoryState = TemperatureAndHumidity(1, 0)

\* C3: when the fetch started by a timer tick fails, that tick issues no
\* updateCharacteristic call.
C3_NoPushOnFailedTick ==
    (Completed /\ last.origin = "tick" /\ last.resp.kind \in HttpFailures)
        => last.pushes = <<>>

\* C4 as stated: every successful fetch, the construction-time one included,
\* is followed by a push of the new temperature and, if enabled, humidity.
C4_EverySuccessPushes ==
    (Completed /\ last.resp.kind = "json_object")
        => last.pushes = PushesFor(ReadingOf(last.resp))

\* C4 as amended: every successful fetch started by a timer tick is followed
\* by a push of the new temperature and, if humidity is enabled, of the new
\* humidity, and the host then holds them; the construction-time fetch
\* pushes nothing.
C4_TickSuccessPushes ==
    (Completed /\ last.resp.kind = "json_object")
        => IF last.origin = "tick"
           THEN /\ last.pushes = PushesFor(ReadingOf(last.resp))
                /\ \A i \in 1..Len(last.pushes) :
                       homekit[last.pushes[i].characteristic] = last.pushes[i].value
           ELSE last.pushes = <<>>

C4_Witness ==
    /\ Completed
    /\ last.origin = "tick"
    /\ last.resp = Response("json_object", 1, 0)
    /\ config.disableHumidity = "false"
    /\ Len(last.pushes) = 2

\* C5: with disableHumidity true the humidity getter is not registered,
\* getServices is exactly the information and temperature services, and no
\* step pushes a humidity; otherwise the getter is registered, getServices
\* also holds the humidity service, and every push of a temperature comes
\* with a push of the humidity.
C5_DisableHumidity ==
    LET humidityPushed ==
            \E i \in 1..Len(last.pushes) :
                last.pushes[i].characteristic = "CurrentRelativeHumidity"
    IN  IF config.disableHumidity = "true"
        THEN /\ "CurrentRelativeHumidity" \notin onGet
             /\ getServices(disableHumidity)
                    = <<"informationService", "temperatureService">>
             /\ last.op = "getServices"
                    => last.services = <<"informationService", "temperatureService">>
             /\ ~humidityPushed
        ELSE /\ "CurrentRelativeHumidity" \in onGet
             /\ getServices(disableHumidity)
                    = <<"informationService", "temperatureService", "humidityService">>
             /\ last.op = "getServices"
                    => last.services = <<"informationService", "temperatureService",
                                         "humidityService">>
             /\ last.pushes # <<>> => humidityPushed

C5_Witness ==
    /\ config.disableHumidity = "true"
    /\ Completed
    /\ last.origin = "tick"
    /\ last.resp = Response("json_object", 0, 1)
    /\ last.pushes = <<Push("CurrentTemperature", 0)>>

\* C6: a 2xx response whose body is not well-formed JSON counts as a failed
\* fetch: the cache stays as it was and an error is logged.
C6_MalformedJsonIsFailure ==
    [][(last'.op = "complete" /\ last'.resp.kind = "malformed")
       => /\ accessoryState' = accessoryState
          /\ Logged(last', "updateAllStates Error")]_vars

\* C7: the timer never stops: whatever completed, failed or hangs, the next
\* tick eventually fires and starts a new fetch (up to the MaxTicks ticks the
\* model lets the timer fire).
C7_TimerKeepsFiring ==
    \A n \in 0..(MaxTicks - 1) :
        (ticks = n) ~> (ticks = n + 1 /\ Len(issued) = n + 2 /\ (n + 2) \in inflight)

C7_Witness ==
    /\ ticks = MaxTicks
    /\ last.op = "tick"
    /\ inflight = 1..(MaxTicks + 1)

\* C8 as stated: at most one fetch is in flight at any moment.
C8_AtMostOneInFlight == Cardinality(inflight) <= 1

\* C8 as amended: the construction and each timer tick start exactly one
\* fetch each, whether or not earlier fetches are outstanding; the fetches
\* in flight are at most one per tick fired plus the construction-time one.
C8_OneFetchPerTick ==
    /\ Len(issued) = ticks + (IF pc = "running" THEN 1 ELSE 0)
    /\ inflight \subseteq 1..Len(issued)
    /\ Cardinality(inflight) <= ticks + 1
    /\ last.op = "tick" => Len(issued) \in inflight

C8_Witness ==
    /\ last.op = "tick"
    /\ Cardinality(inflight) >= 2
    /\ ticks = 1

\* C9 as stated: the immediate fetch is issued before the timer is armed, so
\* whenever the timer is armed that fetch has been issued.
C9_FetchBeforeTimer == timerArmed => Len(issued) >= 1

\* C9 as amended: construction arms the repeating timer and then performs
\* exactly one immediate fetch, in that order; that fetch is still the first
\* request of all, issued before the fetch of any timer tick.
C9_TimerBeforeFetch ==
    /\ Len(issued) >= 1 => (timerArmed /\ issued[1] = "init")
    /\ pc = "running" => Cardinality({i \in 1..Len(issued) : issued[i] = "init"}) = 1
    /\ ticks > 0 => pc = "running"

C9_Witness ==
    /\ pc = "running"
    /\ ticks >= 1
    /\ issued[1] = "init"
    /\ issued[2] = "tick"

\* C10: each getter returns its field of the current cache and changes
\* neither the cache, the requests in flight, the timer nor what the host
\* was pushed.
C10_GettersArePureReads ==
    [][/\ last'.op = "getCurrentTemperature"
            => last'.value = accessoryState.temperature
       /\ last'.op = "getCurrentRelativeHumidity"
            => last'.value = accessoryState.humidity
       /\ last'.op \in {"getCurrentTemperature", "getCurrentRelativeHumidity"}
            => UNCHANGED <<accessoryState, source, replaced, issued, inflight,
                           timerArmed, timerDelay, ticks, homekit,
                           unhandledRejection>>]_vars

C10_Witness ==
    /\ last.op = "getCurrentRelativeHumidity"
    /\ last.value = 1
    /\ accessoryState = TemperatureAndHumidity(0, 1)
    /\ inflight # {}

\* C11 as stated: the polling period is refresh * 1000 ms for every configured
\* refresh value and 30000 ms when refresh is left out.
C11_PeriodIsRefreshTimes1000 ==
    timerArmed => timerDelay = IF config.refresh = omitted THEN 30000
                               ELSE config.refresh * 1000

\* C11 as amended: the polling period is refresh * 1000 ms for a configured
\* refresh value other than 0, and 30000 ms when refresh is left out or 0;
\* from the arming of the timer on it is that value in every state.
C11_PeriodOfNonZeroRefresh ==
    /\ refresh_interval = IF config.refresh \in {omitted, 0} THEN 30
                          ELSE config.refresh
    /\ timerArmed => timerDelay = IF config.refresh \in {omitted, 0} THEN 30000
                                  ELSE config.refresh * 1000

C11_Witness ==
    /\ config.refresh = 5
    /\ timerArmed
    /\ timerDelay = 5000
    /\ ticks = MaxTicks

\* C12: when a fetch A completes successfully after a fetch B that was
\* requested later than A has completed successfully (the cache holds B's
\* reading), the cache takes A's reading: the last write wins, in completion
\* order.
C12_LastWriteWins ==
    [][\A a \in inflight :
          (a \notin inflight' /\ last'.resp.kind = "json_object"
              /\ source.temperature > a)
          => /\ accessoryState' = ReadingOf(last'.resp)
             /\ source' = [temperature |-> a, humidity |-> a]
             /\ replaced' = source.temperature]_vars

C12_Witness ==
    /\ Completed
    /\ last.resp = Response("json_object", 1, 0)
    /\ source = [temperature |-> 1, humidity |-> 1]
    /\ replaced = 2
    /\ accessoryState = TemperatureAndHumidity(1, 0)

\* C13: whenever a getter or a push can run, the cached temperature and the
\* cached humidity were written by the same completed request (or are both
\* the initial 0), and right after a successful completion they are the two
\* fields of that one response.
C13_CacheFromOneReading ==
    /\ source.temperature = source.humidity
    /\ source.temperature = 0 => accessoryState = TemperatureAndHumidity(0, 0)
    /\ source.temperature # 0 => source.temperature \in (1..Len(issued)) \ inflight
    /\ (Completed /\ last.updated) => accessoryState = ReadingOf(last.resp)

C13_Witness ==
    /\ last.op = "getCurrentTemperature"
    /\ source = [temperature |-> 2, humidity |-> 2]
    /\ replaced = 3
    /\ inflight = {1}
    /\ accessoryState = TemperatureAndHumidity(0, 1)

\* C14: every updateCharacteristic call carries the value the cache holds at
\* that moment, and the host then holds it: the temperature pushed is the
\* cached temperature, the humidity pushed the cached humidity.
C14_PushesCarryCache ==
    \A k \in 1..Len(last.pushes) :
        LET p == last.pushes[k]
        IN  /\ p.characteristic = "CurrentTemperature"
                => p.value = accessoryState.temperature
            /\ p.characteristic = "CurrentRelativeHumidity"
                => p.value = accessoryState.humidity
            /\ homekit[p.characteristic] = p.value

C14_Witness ==
    /\ Completed
    /\ last.origin = "tick"
    /\ last.resp.kind = "network_error"
    /\ accessoryState = TemperatureAndHumidity(0, 1)
    /\ last.pushes = <<Push("CurrentTemperature", 0),
                       Push("CurrentRelativeHumidity", 1)>>
    /\ inflight # {}

\* C15: a 2xx JSON object that lacks the temperature or the humidity field
\* is still a success, and the cache field it lacks becomes undefined: it
\* neither keeps its previous value nor takes the default 0.
C15_AbsentFieldOverwrites ==
    (Completed /\ last.resp.kind = "json_object")
        => /\ last.updated
           /\ last.resp.temperature = undefined
                => accessoryState.temperature = undefined
           /\ last.resp.humidity = undefined
                => accessoryState.humidity = undefined

C15_Witness ==
    /\ Completed
    /\ last.updated
    /\ last.resp = Response("json_object", undefined, 1)
    /\ accessoryState = TemperatureAndHumidity(undefined, 1)
    /\ replaced # 0

====
